---- MODULE Spec2Model ----
(***************************************************************************)
(* WNY Black Car: the 3-step booking form (src/app/page.tsx, BookingPage), *)
(* its payment handoff (src/app/api/stripe/checkout/route.ts), the chat    *)
(* concierge that may request step jumps (components/virtual-concierge),   *)
(* and the admin content versioning (src/app/admin/page.tsx).              *)
(*                                                                         *)
(* Spec         the customer side: form, submission, checkout, concierge.  *)
(* SpecContent  the admin side: PIN gate, content draft, save / restore.   *)
(* SpecDispatch the dashboard's booking list and its status updates.       *)
(* SpecFeeds    the dashboard's three feeds over changing stores.          *)
(* SpecArchive  the version list over a collection past the display cap.   *)
(* SpecChat     one request to the concierge chat endpoint.                *)
(***************************************************************************)
EXTENDS Integers, Sequences, FiniteSets, TLC

VARIABLES
    \* ---- environment / configuration
    firestoreDb,        \* TRUE iff the store client exists (credentials present)
    firebaseApp,        \* outcome of evaluating lib/firebase.ts: "app" or "threw"
    \* ---- BookingPage component state (useState hooks)
    formState,
    selectedVehicle,
    bookingStep,
    isSubmitting,
    submitMessage,
    submitError,
    checkoutStatus,
    \* ---- the handleSubmit call in flight (its closure and its position)
    submitPc,           \* "idle" | "addDoc" | "checkout"
    submitCtx,          \* what the running handleSubmit closed over
    \* ---- the browser window
    location,           \* "booking" | "stripe" (after window.location.assign)
    \* ---- VirtualConcierge requests awaiting the chat endpoint
    chatPending,
    chatsAsked,         \* how many requests the concierge has sent so far
    \* ---- document store and payment endpoint
    bookings,           \* the "bookings" collection, in creation order
    serverClock,        \* the store's clock (serverTimestamp)
    checkoutRequests,   \* bodies POSTed to /api/stripe/checkout
    checkoutResponses,  \* what the endpoint answered
    \* ---- AdminPage component state
    isPinUnlocked,
    pinSession,         \* sessionStorage[PIN_SESSION_KEY]
    pinError,
    contentDraft,
    contentSaving,
    contentMessage,
    contentError,
    contentVersions,
    restoringVersionId,
    imageLoadErrors,
    \* ---- content store
    siteContentDoc,     \* siteContent/main, or NoDoc
    siteContentVersions,\* the "siteContentVersions" collection, in creation order
    batchesInFlight,    \* write batches whose commit() has not settled
    contentWriteLog,    \* ids of the batches that wrote siteContent/main, in order
    opCounter,          \* numbers the save / restore operations started
    \* ---- AdminPage: the booking list
    adminBookings,      \* `bookings` of AdminPage: the list the feed delivered
    adminError,         \* `error` of AdminPage
    savingId,           \* <<bookingId, "status" | "payment">>, or <<>>
    updatesInFlight,    \* updateDoc calls that have not settled
    updatesStarted,     \* how many updateDoc calls were issued so far
    \* ---- POST /api/concierge/chat: one request, its environment, its answer
    chatBody,
    chatService,
    chatResponse

bookingVars == <<formState, selectedVehicle, bookingStep, isSubmitting, submitMessage,
                 submitError, checkoutStatus, submitPc, submitCtx, location, chatPending,
                 chatsAsked, bookings, checkoutRequests, checkoutResponses>>

adminVars == <<isPinUnlocked, pinSession, pinError, contentDraft, contentSaving,
               contentMessage, contentError, contentVersions, restoringVersionId,
               imageLoadErrors, siteContentDoc, siteContentVersions, batchesInFlight,
               contentWriteLog, opCounter>>

dispatchVars == <<adminBookings, adminError, savingId, updatesInFlight, updatesStarted>>

chatVars == <<chatBody, chatService, chatResponse>>

envVars == <<firestoreDb, firebaseApp>>

vars == <<envVars, bookingVars, adminVars, dispatchVars, chatVars, serverClock>>

----------------------------------------------------------------------------
(* Bounds *)

MaxBookings == 1    \* booking records written in one behaviour
MaxChats    == 1    \* concierge requests sent in one behaviour
MaxInFlight == 1    \* customer-side network calls outstanding at once
MaxOps      == 3    \* content save / restore operations started in one behaviour
MaxUpdates  == 2    \* status / payment-status updates issued in one behaviour

----------------------------------------------------------------------------
(* Booking form: catalog and fare model *)

ServiceTypes == {"one-way", "round-trip", "hourly"}

vehicles ==
    << [id |-> "sedan",    name |-> "Luxury Sedan",  baseFare |-> 120],
       [id |-> "suv",      name |-> "Premium SUV",   baseFare |-> 145],
       [id |-> "sprinter", name |-> "Executive Van", baseFare |-> 220] >>

VehicleIds == {vehicles[i].id : i \in DOMAIN vehicles}

NoVehicle == [id |-> "", name |-> "", baseFare |-> 0]

\* vehicles.find((vehicle) => vehicle.id === selectedVehicle) ?? null
selectedOf(sv) ==
    IF \E i \in DOMAIN vehicles : vehicles[i].id = sv
    THEN vehicles[CHOOSE i \in DOMAIN vehicles :
                    /\ vehicles[i].id = sv
                    /\ \A j \in DOMAIN vehicles : vehicles[j].id = sv => i <= j]
    ELSE NoVehicle

serviceMultiplierBroken(serviceType) ==
    IF serviceType = "round-trip" THEN 2 ELSE 1

serviceMultiplier(serviceType) ==
    IF serviceType = "round-trip" THEN 2
    ELSE IF serviceType = "hourly" THEN 3
    ELSE 1

estimatedFareOf(f, sv) ==
    IF selectedOf(sv) # NoVehicle
    THEN selectedOf(sv).baseFare * serviceMultiplier(f.serviceType)
    ELSE 0

selected == selectedOf(selectedVehicle)

estimatedFare == estimatedFareOf(formState, selectedVehicle)

----------------------------------------------------------------------------
(* Booking form: draft fields *)

\* The text a user may have in an input: empty, or some text.
Blank == " "

TextValues == [ serviceType    |-> ServiceTypes,
                pickupAddress  |-> {"", "A"},
                dropoffAddress |-> {"", "B"},
                serviceDate    |-> {"", "2026-01-01"},
                pickupTime     |-> {"", "09:00"},
                fullName       |-> {"", "N"},
                email          |-> {"", "e@x"},
                phone          |-> {"", "716"} ]

\* String.prototype.trim on the values above
trim(s) == IF s = Blank THEN "" ELSE IF s = " 1844 " THEN "1844" ELSE s

initialFormState ==
    [ serviceType         |-> "one-way",
      serviceDate         |-> "",
      pickupAddress       |-> "",
      dropoffAddress      |-> "",
      pickupTime          |-> "",
      passengers          |-> 2,
      fullName            |-> "",
      email               |-> "",
      phone               |-> "",
      specialInstructions |-> "" ]

\* the step whose panel renders the input of a field
stepOfField(field) ==
    IF field \in {"serviceType", "pickupAddress", "dropoffAddress", "serviceDate",
                  "pickupTime"}
    THEN 1
    ELSE 3

canProceedStep1Of(f) ==
    /\ trim(f.pickupAddress) # ""
    /\ trim(f.dropoffAddress) # ""
    /\ f.serviceDate # ""
    /\ f.pickupTime # ""

canProceedStep2Of(sv) == selectedOf(sv) # NoVehicle

canProceedStep1 == canProceedStep1Of(formState)

canProceedStep2 == canProceedStep2Of(selectedVehicle)

----------------------------------------------------------------------------
(* Messages *)

ConfigErrorMsg    == "Missing Firebase environment variables"
DateTimeMsg       == "Please select service date and pickup time."
AddressMsg        == "Please enter pickup and drop-off addresses."
ContactMsg        == "Please complete your contact information."
VehicleMsg        == "Please select a vehicle."
SaveFailedMsg     == "Unable to save booking"
CheckoutNotStartedMsg == "Booking saved. Stripe checkout could not start automatically."
CheckoutFallbackErr   == "Unable to create Stripe checkout session. Please contact dispatch."
RedirectingMsg    == "Redirecting to secure payment..."
ConciergeTrip2Msg == "Complete trip details first so I can open vehicle selection."
ConciergeTrip3Msg == "Complete trip details first before proceeding to confirmation."
ConciergeVehicleMsg == "Select a vehicle first before proceeding to confirmation."

----------------------------------------------------------------------------
(* Payment endpoint: POST /api/stripe/checkout *)

vehicleBaseFareStale == [sedan |-> 120, suv |-> 145, sprinter |-> 200]

vehicleBaseFare == [sedan |-> 120, suv |-> 145, sprinter |-> 220]

routeServiceMultiplier == [x \in ServiceTypes |->
                              CASE x = "one-way"    -> 1
                                [] x = "round-trip" -> 2
                                [] x = "hourly"     -> 3]

NoUrl == <<>>

NoChat == <<>>

StripeOutcomes == {"url", "noUrl", "throws"}

\* the amount in cents the endpoint asks the provider to charge
checkoutUnitAmount(body) ==
    LET fallbackAmountUsd == vehicleBaseFare[body.vehicleId]
                               * routeServiceMultiplier[body.serviceType]
        estimatedFareFromRequest == IF "estimatedFare" \in DOMAIN body
                                    THEN body.estimatedFare ELSE 0
        amountUsd == IF estimatedFareFromRequest > 0
                     THEN estimatedFareFromRequest ELSE fallbackAmountUsd
    IN  amountUsd * 100

\* the response of the endpoint to `body`, the provider behaving as `stripe`
checkoutPOST(key, body, stripe) ==
    IF ~key
    THEN [ok |-> FALSE, status |-> 500, url |-> NoUrl, amount |-> 0,
          error |-> "Stripe is not configured. Missing STRIPE_SECRET_KEY."]
    ELSE IF body.bookingId = 0 \/ body.vehicleId = "" \/ body.serviceType = ""
    THEN [ok |-> FALSE, status |-> 400, url |-> NoUrl, amount |-> 0,
          error |-> "Missing required checkout fields."]
    ELSE IF body.vehicleId \notin DOMAIN vehicleBaseFare
            \/ body.serviceType \notin DOMAIN routeServiceMultiplier
    THEN [ok |-> FALSE, status |-> 400, url |-> NoUrl, amount |-> 0,
          error |-> "Invalid vehicle or service type."]
    ELSE IF checkoutUnitAmount(body) <= 0
    THEN [ok |-> FALSE, status |-> 400, url |-> NoUrl, amount |-> 0,
          error |-> "Invalid checkout amount."]
    ELSE IF stripe = "throws"
    THEN [ok |-> FALSE, status |-> 500, url |-> NoUrl, amount |-> 0,
          error |-> "Unable to create Stripe checkout session."]
    ELSE IF stripe = "noUrl"
    THEN [ok |-> FALSE, status |-> 500, url |-> NoUrl, amount |-> 0,
          error |-> "Stripe did not return a checkout URL."]
    ELSE [ok |-> TRUE, status |-> 200, url |-> <<"checkout.stripe", body.bookingId>>,
          amount |-> checkoutUnitAmount(body), error |-> ""]

----------------------------------------------------------------------------
(* Booking form: handlers *)

\* network calls of the booking page that have not settled
outstanding == Cardinality(chatPending) + (IF submitPc # "idle" THEN 1 ELSE 0)

\* The model follows a customer until the last submission the bound allows has
\* settled; what they do with the form after that is not explored.
customerActive ==
    /\ location = "booking"
    /\ Len(bookings) < MaxBookings \/ submitPc # "idle"

\* updateField(field, value), from the inputs of the visible step
updateField(field, value) ==
    /\ customerActive
    /\ bookingStep = stepOfField(field)
    /\ formState' = [formState EXCEPT ![field] = value]
    /\ UNCHANGED <<selectedVehicle, bookingStep, isSubmitting, submitMessage, submitError,
                   checkoutStatus, submitPc, submitCtx, location, chatPending, chatsAsked, bookings,
                   checkoutRequests, checkoutResponses>>
    /\ UNCHANGED <<envVars, chatVars, dispatchVars, adminVars, serverClock>>

\* setSelectedVehicle(vehicle.id), from the vehicle cards of step 2
setSelectedVehicle(id) ==
    /\ customerActive
    /\ bookingStep = 2
    /\ selectedVehicle' = id
    /\ UNCHANGED <<formState, bookingStep, isSubmitting, submitMessage, submitError,
                   checkoutStatus, submitPc, submitCtx, location, chatPending, chatsAsked, bookings,
                   checkoutRequests, checkoutResponses>>
    /\ UNCHANGED <<envVars, chatVars, dispatchVars, adminVars, serverClock>>

\* which step buttons the visible panel offers, and whether they are enabled
stepButtonEnabled(nextStep) ==
    \/ bookingStep = 1 /\ nextStep = 2 /\ canProceedStep1
    \/ bookingStep = 2 /\ nextStep = 1
    \/ bookingStep = 2 /\ nextStep = 3 /\ canProceedStep2
    \/ bookingStep = 3 /\ nextStep = 2

goToStep(nextStep) ==
    /\ customerActive
    /\ stepButtonEnabled(nextStep)
    /\ submitError' = ""
    /\ bookingStep' = nextStep
    /\ UNCHANGED <<formState, selectedVehicle, isSubmitting, submitMessage,
                   checkoutStatus, submitPc, submitCtx, location, chatPending, chatsAsked, bookings,
                   checkoutRequests, checkoutResponses>>
    /\ UNCHANGED <<envVars, chatVars, dispatchVars, adminVars, serverClock>>

submitValidationErrorNoContact(db, f, sv) ==
    IF ~db THEN ConfigErrorMsg
    ELSE IF f.serviceDate = "" \/ f.pickupTime = "" THEN DateTimeMsg
    ELSE IF f.pickupAddress = "" \/ f.dropoffAddress = "" THEN AddressMsg
    ELSE IF selectedOf(sv) = NoVehicle THEN VehicleMsg
    ELSE ""

\* the validation chain of handleSubmit: "" when the draft passes
submitValidationError(db, f, sv) ==
    IF ~db THEN ConfigErrorMsg
    ELSE IF f.serviceDate = "" \/ f.pickupTime = "" THEN DateTimeMsg
    ELSE IF f.pickupAddress = "" \/ f.dropoffAddress = "" THEN AddressMsg
    ELSE IF f.fullName = "" \/ f.email = "" \/ f.phone = "" THEN ContactMsg
    ELSE IF selectedOf(sv) = NoVehicle THEN VehicleMsg
    ELSE ""

\* the document handed to addDoc (createdAt is filled in by the store)
bookingPayload(f, sv) ==
    [ tripType            |-> f.serviceType,
      serviceDate         |-> f.serviceDate,
      pickupTime          |-> f.pickupTime,
      pickupAddress       |-> f.pickupAddress,
      dropoffAddress      |-> f.dropoffAddress,
      passengers          |-> f.passengers,
      vehicleId           |-> selectedOf(sv).id,
      vehicleName         |-> selectedOf(sv).name,
      estimatedFare       |-> estimatedFareOf(f, sv),
      customerName        |-> f.fullName,
      customerEmail       |-> f.email,
      customerPhone       |-> f.phone,
      specialInstructions |-> f.specialInstructions,
      status              |-> "pending",
      paymentStatus       |-> "unpaid",
      source              |-> "web-booking" ]

checkoutBodyWithoutId(bookingId, payload) ==
    [ bookingId     |-> 0,
      vehicleId     |-> payload.vehicleId,
      serviceType   |-> payload.tripType,
      customerName  |-> payload.customerName,
      customerEmail |-> payload.customerEmail ]

\* the body of the fetch to /api/stripe/checkout
checkoutBody(bookingId, payload) ==
    [ bookingId     |-> bookingId,
      vehicleId     |-> payload.vehicleId,
      serviceType   |-> payload.tripType,
      customerName  |-> payload.customerName,
      customerEmail |-> payload.customerEmail ]

\* handleSubmit up to its first await: validation, then addDoc is issued
submitAlwaysEnabled(submitting) == TRUE

\* the submit button of step 3: disabled={isSubmitting}
submitEnabled(submitting) == ~submitting

handleSubmit ==
    /\ customerActive
    /\ bookingStep = 3
    /\ submitEnabled(isSubmitting)
    /\ submitMessage' = ""
    /\ LET err == submitValidationError(firestoreDb, formState, selectedVehicle) IN
         IF err # ""
         THEN /\ submitError' = err
              /\ UNCHANGED <<isSubmitting, submitPc, submitCtx>>
         ELSE /\ Cardinality(chatPending) < MaxInFlight
              /\ submitError' = ""
              /\ isSubmitting' = TRUE
              /\ submitPc' = "addDoc"
              /\ submitCtx' = << bookingPayload(formState, selectedVehicle) >>
    /\ UNCHANGED <<formState, selectedVehicle, bookingStep, checkoutStatus, location,
                   chatPending, chatsAsked, bookings, checkoutRequests, checkoutResponses>>
    /\ UNCHANGED <<envVars, chatVars, dispatchVars, adminVars, serverClock>>

storedBookingClientTime(payload, id, now) ==
    [ id |-> id, createdAt |-> 0, data |-> payload ]

\* the record the store holds after addDoc: generated id, server timestamp
storedBooking(payload, id, now) ==
    [ id |-> id, createdAt |-> now, data |-> payload ]

\* addDoc resolved: the record exists, and the checkout fetch is sent
addDocResolved ==
    /\ submitPc = "addDoc"
    /\ LET id == Len(bookings) + 1 IN
         /\ bookings' = Append(bookings, storedBooking(submitCtx[1], id, serverClock + 1))
         /\ checkoutRequests' = Append(checkoutRequests, checkoutBody(id, submitCtx[1]))
    /\ serverClock' = serverClock + 1
    /\ submitPc' = "checkout"
    /\ UNCHANGED <<formState, selectedVehicle, bookingStep, isSubmitting, submitMessage,
                   submitError, checkoutStatus, submitCtx, location, chatPending,
                   chatsAsked, checkoutResponses>>
    /\ UNCHANGED <<envVars, chatVars, dispatchVars, adminVars>>

\* addDoc rejected: catch and finally of handleSubmit
addDocRejected ==
    /\ submitPc = "addDoc"
    /\ submitError' = SaveFailedMsg
    /\ isSubmitting' = FALSE
    /\ submitPc' = "idle"
    /\ submitCtx' = <<>>
    /\ UNCHANGED <<formState, selectedVehicle, bookingStep, submitMessage, checkoutStatus,
                   location, chatPending, chatsAsked, bookings, checkoutRequests, checkoutResponses>>
    /\ UNCHANGED <<envVars, chatVars, dispatchVars, adminVars, serverClock>>

\* the fetch failed (network error, unreadable body): catch and finally
checkoutFetchFailed ==
    /\ submitPc = "checkout"
    /\ submitError' = SaveFailedMsg
    /\ isSubmitting' = FALSE
    /\ submitPc' = "idle"
    /\ submitCtx' = <<>>
    /\ UNCHANGED <<formState, selectedVehicle, bookingStep, submitMessage, checkoutStatus,
                   location, chatPending, chatsAsked, bookings, checkoutRequests, checkoutResponses>>
    /\ UNCHANGED <<envVars, chatVars, dispatchVars, adminVars, serverClock>>

checkoutFailedClientErrorOnly(response) ==
    response.status = 400

\* !checkoutResponse.ok || !checkoutData.url
checkoutFailed(response) ==
    ~response.ok \/ response.url = NoUrl

\* the endpoint answered (key: whether it finds STRIPE_SECRET_KEY in its
\* environment): either the error branch, or redirect and reset
checkoutAnswered(key, stripe) ==
    /\ submitPc = "checkout"
    /\ LET body     == checkoutRequests[Len(checkoutRequests)]
           response == checkoutPOST(key, body, stripe)
       IN
         /\ checkoutResponses' = Append(checkoutResponses, response)
         /\ IF checkoutFailed(response)
            THEN /\ submitMessage' = CheckoutNotStartedMsg
                 /\ submitError' = IF response.error # "" THEN response.error
                                   ELSE CheckoutFallbackErr
                 /\ UNCHANGED <<location, formState, selectedVehicle, bookingStep>>
            ELSE /\ location' = "stripe"
                 /\ submitMessage' = RedirectingMsg
                 /\ formState' = initialFormState
                 /\ selectedVehicle' = ""
                 /\ bookingStep' = 1
                 /\ UNCHANGED submitError
    /\ isSubmitting' = FALSE
    /\ submitPc' = "idle"
    /\ submitCtx' = <<>>
    /\ UNCHANGED <<checkoutStatus, chatPending, chatsAsked, bookings, checkoutRequests>>
    /\ UNCHANGED <<envVars, chatVars, dispatchVars, adminVars, serverClock>>

\* a return that records the outcome of the payment on the booking
returnFromCheckoutMarkingPaid(status) ==
    /\ location = "stripe"
    /\ location' = "booking"
    /\ checkoutStatus' = status
    /\ formState' = initialFormState
    /\ selectedVehicle' = ""
    /\ bookingStep' = 1
    /\ isSubmitting' = FALSE
    /\ submitMessage' = ""
    /\ submitError' = ""
    /\ submitPc' = "idle"
    /\ submitCtx' = <<>>
    /\ chatPending' = {}
    /\ bookings' = [i \in DOMAIN bookings |->
                      IF i = Len(bookings) /\ status = "success"
                      THEN [bookings[i] EXCEPT !.data.paymentStatus = "paid"]
                      ELSE bookings[i]]
    /\ UNCHANGED <<chatsAsked, checkoutRequests, checkoutResponses>>
    /\ UNCHANGED <<envVars, chatVars, dispatchVars, adminVars, serverClock>>

\* the provider sends the browser back to /booking?checkout=...: a fresh mount
returnFromCheckout(status) ==
    /\ location = "stripe"
    /\ location' = "booking"
    /\ checkoutStatus' = status
    /\ formState' = initialFormState
    /\ selectedVehicle' = ""
    /\ bookingStep' = 1
    /\ isSubmitting' = FALSE
    /\ submitMessage' = ""
    /\ submitError' = ""
    /\ submitPc' = "idle"
    /\ submitCtx' = <<>>
    /\ chatPending' = {}
    /\ UNCHANGED <<chatsAsked, bookings, checkoutRequests, checkoutResponses>>
    /\ UNCHANGED <<envVars, chatVars, dispatchVars, adminVars, serverClock>>

----------------------------------------------------------------------------
(* Chat concierge: step jumps requested on the user's behalf *)

\* goToStepFromConcierge(nextStep) of the render whose guards were g1, g2,
\* applied to the pending updates st = [step, error]
goToStepFromConcierge(st, nextStep, g1, g2) ==
    IF nextStep = 2 /\ ~g1 THEN [st EXCEPT !.error = ConciergeTrip2Msg]
    ELSE IF nextStep = 3 /\ ~g1 THEN [st EXCEPT !.error = ConciergeTrip3Msg]
    ELSE IF nextStep = 3 /\ ~g2 THEN [st EXCEPT !.error = ConciergeVehicleMsg]
    ELSE [step |-> nextStep, error |-> ""]

\* the texts that mention a step: "step 2", "step 3", or both
ChatMentions == {{2}, {3}, {2, 3}}

\* triggerAction / handleSubmit of the concierge up to the await of the reply:
\* the handler keeps the onGoToStep of the render it was created in
conciergeAsk(mentions) ==
    /\ customerActive
    /\ chatsAsked < MaxChats
    /\ outstanding < MaxInFlight
    /\ chatsAsked' = chatsAsked + 1
    /\ chatPending' = chatPending \cup
          {[mentions |-> mentions, g1 |-> canProceedStep1, g2 |-> canProceedStep2]}
    /\ UNCHANGED <<formState, selectedVehicle, bookingStep, isSubmitting, submitMessage,
                   submitError, checkoutStatus, submitPc, submitCtx, location, bookings,
                   checkoutRequests, checkoutResponses>>
    /\ UNCHANGED <<envVars, chatVars, dispatchVars, adminVars, serverClock>>

\* the reply arrived: onGoToStep(2) if "step 2" is mentioned, then
\* onGoToStep(3) if "step 3" is
conciergeReplied(req) ==
    /\ location = "booking"
    /\ req \in chatPending
    /\ chatPending' = chatPending \ {req}
    /\ UNCHANGED chatsAsked
    /\ LET st0 == [step |-> bookingStep, error |-> submitError]
           st1 == IF 2 \in req.mentions
                  THEN goToStepFromConcierge(st0, 2, req.g1, req.g2) ELSE st0
           st2 == IF 3 \in req.mentions
                  THEN goToStepFromConcierge(st1, 3, req.g1, req.g2) ELSE st1
       IN  /\ bookingStep' = st2.step
           /\ submitError' = st2.error
    /\ UNCHANGED <<formState, selectedVehicle, isSubmitting, submitMessage,
                   checkoutStatus, submitPc, submitCtx, location, bookings,
                   checkoutRequests, checkoutResponses>>
    /\ UNCHANGED <<envVars, chatVars, dispatchVars, adminVars, serverClock>>

----------------------------------------------------------------------------
(* Site content (src/lib/site-content.ts) *)

\* One field stands for the copy of each section, and id / baseFare / image for
\* a fleet entry; the catalog is cut to its first entry.
defaultSiteContent ==
    [ home    |-> [heroBadge |-> "PREMIUM SERVICE IN WESTERN NEW YORK"],
      booking |-> [formTitle |-> "Reserve Your Vehicle"],
      fleet   |-> << [id |-> "sedan", baseFare |-> 120, image |-> "https://a"] >> ]

NoData == <<>>

fieldOr(rec, field, fallback) ==
    IF field \in DOMAIN rec THEN rec[field] ELSE fallback

normalizeSiteContent(data) ==
    LET home    == fieldOr(data, "home", NoData)
        booking == fieldOr(data, "booking", NoData)
        fleet   == fieldOr(data, "fleet", defaultSiteContent.fleet)
    IN  [ home    |-> [heroBadge |-> fieldOr(home, "heroBadge",
                                             defaultSiteContent.home.heroBadge)],
          booking |-> [formTitle |-> fieldOr(booking, "formTitle",
                                             defaultSiteContent.booking.formTitle)],
          fleet   |-> [index \in DOMAIN fleet |->
                        LET fallback == IF index \in DOMAIN defaultSiteContent.fleet
                                        THEN defaultSiteContent.fleet[index]
                                        ELSE defaultSiteContent.fleet[1]
                            item == fleet[index]
                        IN  [ id       |-> fieldOr(item, "id", fallback.id),
                              image    |-> fieldOr(item, "image", fallback.image),
                              baseFare |-> fieldOr(item, "baseFare", fallback.baseFare) ]] ]

\* new URL(value): the protocol, or "" when the text does not parse
ImageValues == {"", "ftp://a", "https://a"}

urlProtocol(value) ==
    IF value = "https://a" THEN "https:"
    ELSE IF value = "ftp://a" THEN "ftp:"
    ELSE ""

invalidPriceItemsNegativeOnly(draft) ==
    SelectSeq(draft.fleet, LAMBDA item : item.baseFare < 0)

\* contentDraft.fleet.filter((item) => Number(item.baseFare) <= 0)
invalidPriceItemsOf(draft) ==
    SelectSeq(draft.fleet, LAMBDA item : item.baseFare <= 0)

invalidPhotoItemsIgnoringLoadErrors(draft, loadErrors) ==
    SelectSeq(draft.fleet,
              LAMBDA item :
                 IF item.image = "" THEN TRUE
                 ELSE urlProtocol(item.image) \notin {"http:", "https:"})

invalidPhotoItemsOf(draft, loadErrors) ==
    SelectSeq(draft.fleet,
              LAMBDA item :
                 IF item.image = "" THEN TRUE
                 ELSE IF urlProtocol(item.image) = "" THEN TRUE
                 ELSE \/ urlProtocol(item.image) \notin {"http:", "https:"}
                      \/ loadErrors[item.id])

invalidPriceItems == invalidPriceItemsOf(contentDraft)

invalidPhotoItems == invalidPhotoItemsOf(contentDraft, imageLoadErrors)

hasFleetValidationErrors == Len(invalidPriceItems) > 0 \/ Len(invalidPhotoItems) > 0

idsOf(items) == [i \in DOMAIN items |-> items[i].id]

----------------------------------------------------------------------------
(* Content store: siteContent/main and the siteContentVersions collection *)

NoDoc == <<>>

ADMIN_PIN == "1844"

PinAdmin == "pin-admin"

mergeSetKeepingOld(doc, data) ==
    IF doc = NoDoc THEN data
    ELSE [ field \in (DOMAIN doc) \cup (DOMAIN data) |->
             IF field \in DOMAIN doc THEN doc[field] ELSE data[field] ]

\* set(ref, data, {merge: true}): maps are merged field by field, arrays replaced
mergeSet(doc, data) ==
    IF doc = NoDoc THEN data
    ELSE [ field \in (DOMAIN doc) \cup (DOMAIN data) |->
             IF field \notin DOMAIN data THEN doc[field]
             ELSE IF field \in {"home", "booking"} /\ field \in DOMAIN doc
                  THEN data[field] @@ doc[field]
                  ELSE data[field] ]

\* set(ref, data) on a document of the versions collection
setVersion(versions, id, data) ==
    IF \E i \in DOMAIN versions : versions[i].id = id
    THEN [i \in DOMAIN versions |->
            IF versions[i].id = id THEN [id |-> id, data |-> data] ELSE versions[i]]
    ELSE Append(versions, [id |-> id, data |-> data])

\* one write of a batch applied to the store st = [doc, versions], at time now
applyWrite(st, w, now) ==
    IF w.ref = "siteContent/main"
    THEN [st EXCEPT !.doc = mergeSet(st.doc, w.data @@ [updatedAt |-> now])]
    ELSE [st EXCEPT !.versions = setVersion(st.versions, w.id, w.data @@ [createdAt |-> now])]

RECURSIVE applyWrites(_, _, _)
applyWrites(st, writes, now) ==
    IF writes = <<>> THEN st
    ELSE applyWrites(applyWrite(st, Head(writes), now), Tail(writes), now)

commitContentOnly(st, writes, now) ==
    applyWrite(st, writes[1], now)

\* batch.commit(): every write of the batch, or (when it fails) none
commitBatch(st, writes, now) ==
    applyWrites(st, writes, now)

\* the batch of saveContentDraft
saveBatch(draft, versionId) ==
    << [ref  |-> "siteContent/main",
        data |-> draft @@ [updatedByUid |-> PinAdmin, updatedByEmail |-> PinAdmin]],
       [ref  |-> "siteContentVersions", id |-> versionId,
        data |-> [snapshot |-> draft, action |-> "save",
                  createdByUid |-> PinAdmin, createdByEmail |-> PinAdmin]] >>

restoreBatchOverwriting(versionId, snapshot, newId) ==
    << [ref  |-> "siteContent/main",
        data |-> snapshot @@ [updatedByUid |-> PinAdmin, updatedByEmail |-> PinAdmin]],
       [ref  |-> "siteContentVersions", id |-> versionId,
        data |-> [snapshot |-> snapshot, action |-> "restore",
                  sourceVersionId |-> versionId,
                  createdByUid |-> PinAdmin, createdByEmail |-> PinAdmin]] >>

\* the batch of restoreContentVersion(versionId, snapshot)
restoreBatch(versionId, snapshot, newId) ==
    << [ref  |-> "siteContent/main",
        data |-> snapshot @@ [updatedByUid |-> PinAdmin, updatedByEmail |-> PinAdmin]],
       [ref  |-> "siteContentVersions", id |-> newId,
        data |-> [snapshot |-> snapshot, action |-> "restore",
                  sourceVersionId |-> versionId,
                  createdByUid |-> PinAdmin, createdByEmail |-> PinAdmin]] >>

VERSION_LIMIT == 12

EarlierIdBase == 100

RECURSIVE reverseSeq(_)
reverseSeq(s) == IF s = <<>> THEN <<>> ELSE Append(reverseSeq(Tail(s)), Head(s))

versionsQueryOldestKept(versions) ==
    LET kept == IF Len(versions) <= VERSION_LIMIT THEN versions
                ELSE SubSeq(versions, 1, VERSION_LIMIT)
    IN  reverseSeq(kept)

\* query(siteContentVersions, orderBy("createdAt", "desc"), limit(12))
versionsQuery(versions) ==
    LET newestFirst == reverseSeq(versions) IN
      IF Len(newestFirst) <= VERSION_LIMIT THEN newestFirst
      ELSE SubSeq(newestFirst, 1, VERSION_LIMIT)

\* the mapping of the versions onSnapshot callback
versionView(versionDoc) ==
    [ id              |-> versionDoc.id,
      snapshot        |-> normalizeSiteContent(fieldOr(versionDoc.data, "snapshot", NoData)),
      createdAt       |-> versionDoc.data.createdAt,
      action          |-> fieldOr(versionDoc.data, "action", ""),
      sourceVersionId |-> fieldOr(versionDoc.data, "sourceVersionId", 0) ]

----------------------------------------------------------------------------
(* Admin dashboard: PIN gate and content editor *)

PinInputs == {"1844", " 1844 ", "0000", ""}

HomeValues == {defaultSiteContent.home.heroBadge, "NEW BADGE"}

BookingCopyValues == {defaultSiteContent.booking.formTitle}

FareInputs == {-5, 120}

Msg(text) == [text |-> text, priceIds |-> <<>>, photoIds |-> <<>>]

NoMsg == Msg("")

PinRequiredMsg == Msg("Admin PIN is required.")

\* unlockWithPin, and the bookings effect of the unlocked render, which
\* reports a missing store client
unlockWithPin(pinInput) ==
    /\ ~isPinUnlocked
    /\ IF trim(pinInput) # ADMIN_PIN
       THEN /\ pinError' = "Incorrect PIN."
            /\ UNCHANGED <<isPinUnlocked, pinSession, adminError>>
       ELSE /\ pinError' = ""
            /\ isPinUnlocked' = TRUE
            /\ pinSession' = "1"
            /\ adminError' = IF ~firestoreDb THEN ConfigErrorMsg ELSE adminError
    /\ UNCHANGED <<contentDraft, contentSaving, contentMessage, contentError,
                   contentVersions, restoringVersionId, imageLoadErrors, siteContentDoc,
                   siteContentVersions, batchesInFlight, contentWriteLog, opCounter>>
    /\ UNCHANGED <<adminBookings, savingId, updatesInFlight, updatesStarted>>
    /\ UNCHANGED <<envVars, chatVars, bookingVars, serverClock>>

\* lockAdmin, and the effects that empty the version list and the booking
\* list once locked
lockAdmin ==
    /\ isPinUnlocked
    /\ isPinUnlocked' = FALSE
    /\ pinError' = ""
    /\ pinSession' = ""
    /\ contentVersions' = <<>>
    /\ adminBookings' = <<>>
    /\ UNCHANGED <<contentDraft, contentSaving, contentMessage, contentError,
                   restoringVersionId, imageLoadErrors, siteContentDoc,
                   siteContentVersions, batchesInFlight, contentWriteLog, opCounter>>
    /\ UNCHANGED <<adminError, savingId, updatesInFlight, updatesStarted>>
    /\ UNCHANGED <<envVars, chatVars, bookingVars, serverClock>>

updateHomeField(value) ==
    /\ isPinUnlocked
    /\ contentDraft' = [contentDraft EXCEPT !.home.heroBadge = value]
    /\ UNCHANGED <<isPinUnlocked, pinSession, pinError, contentSaving, contentMessage,
                   contentError, contentVersions, restoringVersionId, imageLoadErrors,
                   siteContentDoc, siteContentVersions, batchesInFlight, contentWriteLog,
                   opCounter>>
    /\ UNCHANGED <<envVars, chatVars, dispatchVars, bookingVars, serverClock>>

updateBookingField(value) ==
    /\ isPinUnlocked
    /\ contentDraft' = [contentDraft EXCEPT !.booking.formTitle = value]
    /\ UNCHANGED <<isPinUnlocked, pinSession, pinError, contentSaving, contentMessage,
                   contentError, contentVersions, restoringVersionId, imageLoadErrors,
                   siteContentDoc, siteContentVersions, batchesInFlight, contentWriteLog,
                   opCounter>>
    /\ UNCHANGED <<envVars, chatVars, dispatchVars, bookingVars, serverClock>>

\* Math.max(0, Number.isFinite(Number(value)) ? Number(value) : 0)
clampFare(value) == IF value > 0 THEN value ELSE 0

updateFleetField(index, field, value) ==
    /\ isPinUnlocked
    /\ index \in DOMAIN contentDraft.fleet
    /\ imageLoadErrors' = IF field = "image"
                          THEN [imageLoadErrors EXCEPT ![contentDraft.fleet[index].id] = FALSE]
                          ELSE imageLoadErrors
    /\ contentDraft' = [contentDraft EXCEPT !.fleet[index][field] =
                           IF field = "baseFare" THEN clampFare(value) ELSE value]
    /\ UNCHANGED <<isPinUnlocked, pinSession, pinError, contentSaving, contentMessage,
                   contentError, contentVersions, restoringVersionId,
                   siteContentDoc, siteContentVersions, batchesInFlight, contentWriteLog,
                   opCounter>>
    /\ UNCHANGED <<envVars, chatVars, dispatchVars, bookingVars, serverClock>>

\* onError of the photo preview of a fleet entry
imageOnError(index) ==
    /\ isPinUnlocked
    /\ index \in DOMAIN contentDraft.fleet
    /\ contentDraft.fleet[index].image # ""
    /\ ~imageLoadErrors[contentDraft.fleet[index].id]
    /\ imageLoadErrors' = [imageLoadErrors EXCEPT ![contentDraft.fleet[index].id] = TRUE]
    /\ UNCHANGED <<isPinUnlocked, pinSession, pinError, contentDraft, contentSaving,
                   contentMessage, contentError, contentVersions, restoringVersionId,
                   siteContentDoc, siteContentVersions, batchesInFlight, contentWriteLog,
                   opCounter>>
    /\ UNCHANGED <<envVars, chatVars, dispatchVars, bookingVars, serverClock>>

\* "Reset to defaults": setContentDraft(defaultSiteContent)
resetToDefaults ==
    /\ isPinUnlocked
    /\ contentDraft' = defaultSiteContent
    /\ UNCHANGED <<isPinUnlocked, pinSession, pinError, contentSaving, contentMessage,
                   contentError, contentVersions, restoringVersionId, imageLoadErrors,
                   siteContentDoc, siteContentVersions, batchesInFlight, contentWriteLog,
                   opCounter>>
    /\ UNCHANGED <<envVars, chatVars, dispatchVars, bookingVars, serverClock>>

\* saveContentDraft up to the await of batch.commit().  The button is disabled
\* while a save is pending; the PIN and the fleet validation are the handler's
\* own checks.
saveContentDraft ==
    /\ ~contentSaving
    /\ IF ~isPinUnlocked
       THEN /\ contentError' = PinRequiredMsg
            /\ UNCHANGED <<contentSaving, contentMessage, batchesInFlight, opCounter>>
       ELSE IF hasFleetValidationErrors
       THEN /\ contentError' = [text     |-> "Cannot save yet.",
                                priceIds |-> idsOf(invalidPriceItems),
                                photoIds |-> idsOf(invalidPhotoItems)]
            /\ UNCHANGED <<contentSaving, contentMessage, batchesInFlight, opCounter>>
       ELSE IF ~firestoreDb
       THEN /\ contentError' = Msg(ConfigErrorMsg)
            /\ UNCHANGED <<contentSaving, contentMessage, batchesInFlight, opCounter>>
       ELSE /\ opCounter < MaxOps
            /\ contentSaving' = TRUE
            /\ contentMessage' = ""
            /\ contentError' = NoMsg
            /\ opCounter' = opCounter + 1
            /\ batchesInFlight' = batchesInFlight \cup
                 {[op |-> opCounter + 1, kind |-> "save", snapshot |-> contentDraft,
                   writes |-> saveBatch(contentDraft, opCounter + 1)]}
    /\ UNCHANGED <<isPinUnlocked, pinSession, pinError, contentDraft, contentVersions,
                   restoringVersionId, imageLoadErrors, siteContentDoc,
                   siteContentVersions, contentWriteLog>>
    /\ UNCHANGED <<envVars, chatVars, dispatchVars, bookingVars, serverClock>>

\* restoreContentVersion(version.id, version.snapshot) up to the await of
\* batch.commit(); confirmed is the answer to window.confirm
restoreContentVersion(index, confirmed) ==
    /\ index \in DOMAIN contentVersions
    /\ restoringVersionId # contentVersions[index].id
    /\ ~contentSaving
    /\ LET version == contentVersions[index] IN
       IF ~isPinUnlocked
       THEN /\ contentError' = PinRequiredMsg
            /\ UNCHANGED <<restoringVersionId, contentMessage, batchesInFlight, opCounter>>
       ELSE IF ~firestoreDb
       THEN /\ contentError' = Msg(ConfigErrorMsg)
            /\ UNCHANGED <<restoringVersionId, contentMessage, batchesInFlight, opCounter>>
       ELSE IF ~confirmed
       THEN UNCHANGED <<contentError, restoringVersionId, contentMessage, batchesInFlight,
                        opCounter>>
       ELSE /\ opCounter < MaxOps
            /\ restoringVersionId' = version.id
            /\ contentMessage' = ""
            /\ contentError' = NoMsg
            /\ opCounter' = opCounter + 1
            /\ batchesInFlight' = batchesInFlight \cup
                 {[op |-> opCounter + 1, kind |-> "restore", snapshot |-> version.snapshot,
                   writes |-> restoreBatch(version.id, version.snapshot, opCounter + 1)]}
    /\ UNCHANGED <<isPinUnlocked, pinSession, pinError, contentDraft, contentSaving,
                   contentVersions, imageLoadErrors, siteContentDoc, siteContentVersions,
                   contentWriteLog>>
    /\ UNCHANGED <<envVars, chatVars, dispatchVars, bookingVars, serverClock>>

\* batch.commit() resolved: the store applied the batch, the handler continues
batchCommitted(b) ==
    /\ b \in batchesInFlight
    /\ batchesInFlight' = batchesInFlight \ {b}
    /\ LET st == commitBatch([doc |-> siteContentDoc, versions |-> siteContentVersions],
                             b.writes, serverClock + 1)
       IN  /\ siteContentDoc' = st.doc
           /\ siteContentVersions' = st.versions
           /\ contentWriteLog' = IF st.doc # siteContentDoc
                                 THEN Append(contentWriteLog, b.op) ELSE contentWriteLog
    /\ serverClock' = serverClock + 1
    /\ IF b.kind = "save"
       THEN /\ contentMessage' = "Website content saved successfully. Version snapshot created."
            /\ contentSaving' = FALSE
            /\ UNCHANGED <<contentDraft, restoringVersionId>>
       ELSE /\ contentDraft' = b.snapshot
            /\ contentMessage' = "Version restored successfully."
            /\ restoringVersionId' = 0
            /\ UNCHANGED contentSaving
    /\ UNCHANGED <<isPinUnlocked, pinSession, pinError, contentError, contentVersions,
                   imageLoadErrors, opCounter>>
    /\ UNCHANGED <<envVars, chatVars, dispatchVars, bookingVars>>

\* batch.commit() rejected: nothing was written; catch and finally
batchRejected(b) ==
    /\ b \in batchesInFlight
    /\ batchesInFlight' = batchesInFlight \ {b}
    /\ IF b.kind = "save"
       THEN /\ contentError' = Msg("Unable to save website content.")
            /\ contentSaving' = FALSE
            /\ UNCHANGED restoringVersionId
       ELSE /\ contentError' = Msg("Unable to restore this version.")
            /\ restoringVersionId' = 0
            /\ UNCHANGED contentSaving
    /\ UNCHANGED <<isPinUnlocked, pinSession, pinError, contentDraft, contentMessage,
                   contentVersions, imageLoadErrors, siteContentDoc, siteContentVersions,
                   contentWriteLog, opCounter>>
    /\ UNCHANGED <<envVars, chatVars, dispatchVars, bookingVars, serverClock>>

contentFeedDefaultsOnly(contentDoc) == defaultSiteContent

\* the draft the content onSnapshot callback sets for an emission
contentFeed(contentDoc) ==
    IF contentDoc = NoDoc THEN defaultSiteContent
    ELSE normalizeSiteContent(contentDoc)

\* the list the versions onSnapshot callback builds from an emission
versionsFeed(store) ==
    LET docs == versionsQuery(store) IN [i \in DOMAIN docs |-> versionView(docs[i])]

\* onSnapshot of siteContent/main
contentSnapshot ==
    /\ isPinUnlocked
    /\ firestoreDb
    /\ contentDraft' = contentFeed(siteContentDoc)
    /\ UNCHANGED <<isPinUnlocked, pinSession, pinError, contentSaving, contentMessage,
                   contentError, contentVersions, restoringVersionId, imageLoadErrors,
                   siteContentDoc, siteContentVersions, batchesInFlight, contentWriteLog,
                   opCounter>>
    /\ UNCHANGED <<envVars, chatVars, dispatchVars, bookingVars, serverClock>>

\* onSnapshot of the versions query
versionsSnapshot ==
    /\ isPinUnlocked
    /\ firestoreDb
    /\ contentVersions' = versionsFeed(siteContentVersions)
    /\ UNCHANGED <<isPinUnlocked, pinSession, pinError, contentDraft, contentSaving,
                   contentMessage, contentError, restoringVersionId, imageLoadErrors,
                   siteContentDoc, siteContentVersions, batchesInFlight, contentWriteLog,
                   opCounter>>
    /\ UNCHANGED <<envVars, chatVars, dispatchVars, bookingVars, serverClock>>

----------------------------------------------------------------------------
(* Admin dashboard: the booking list and its status updates *)

BOOKING_STATUSES == <<"pending", "confirmed", "completed", "cancelled">>

PAYMENT_STATUSES == <<"unpaid", "paid", "refunded">>

NoSaving == <<>>

\* the record of the booking list made from a document of the feed
bookingView(snapshotDoc) ==
    [id |-> snapshotDoc.id] @@ snapshotDoc.data @@ [createdAt |-> snapshotDoc.createdAt]

\* query(collection(firestoreDb, "bookings"), orderBy("createdAt", "desc")):
\* the store appends in creation order
bookingsQuery(store) == reverseSeq(store)

\* the records the bookings onSnapshot callback builds from an emission
bookingsFeed(store) ==
    LET docs == bookingsQuery(store) IN [i \in DOMAIN docs |-> bookingView(docs[i])]

\* an emission handled as an addition to the list already held
bookingsSnapshotAppending ==
    /\ isPinUnlocked
    /\ firestoreDb
    /\ adminBookings' = adminBookings \o bookingsFeed(bookings)
    /\ adminError' = ""
    /\ UNCHANGED <<savingId, updatesInFlight, updatesStarted>>
    /\ UNCHANGED <<envVars, chatVars, bookingVars, adminVars, serverClock>>

\* onSnapshot of query(bookings, orderBy("createdAt", "desc"))
bookingsSnapshot ==
    /\ isPinUnlocked
    /\ firestoreDb
    /\ adminBookings' = bookingsFeed(bookings)
    /\ adminError' = ""
    /\ UNCHANGED <<savingId, updatesInFlight, updatesStarted>>
    /\ UNCHANGED <<envVars, chatVars, bookingVars, adminVars, serverClock>>

updateDocResettingOther(store, bookingId, field, value) ==
    [i \in DOMAIN store |->
       IF store[i].id = bookingId
       THEN [store[i] EXCEPT
               !.data.status = IF field = "status" THEN value ELSE "pending",
               !.data.paymentStatus = IF field = "paymentStatus" THEN value ELSE "unpaid"]
       ELSE store[i]]

\* updateDoc(doc(firestoreDb, "bookings", bookingId), { [field]: value })
updateDoc(store, bookingId, field, value) ==
    [i \in DOMAIN store |->
       IF store[i].id = bookingId
       THEN [store[i] EXCEPT !.data[field] = value]
       ELSE store[i]]

\* what a rejected updateDoc is rejected with: an Error carrying a message, or
\* a value that is not an Error
UpdateErrors ==
    {[isError |-> TRUE, message |-> "unavailable"], [isError |-> FALSE, message |-> ""]}

updateErrorTextSilent(kind, updateError) == ""

\* the message of the catch of the two update handlers
updateErrorText(kind, updateError) ==
    IF updateError.isError THEN updateError.message
    ELSE IF kind = "status" THEN "Unable to update booking status."
    ELSE "Unable to update payment status."

\* the rows whose controls can call the update handlers: the rows of the
\* list while unlocked; once locked the list is empty, and the handlers'
\* own PIN check is exercised with the ids of the stored bookings
offeredBookingIds ==
    IF isPinUnlocked
    THEN {adminBookings[i].id : i \in DOMAIN adminBookings}
    ELSE {bookings[i].id : i \in DOMAIN bookings}

updateGuardErrorNoPin(unlocked, db) ==
    IF ~db THEN ConfigErrorMsg ELSE ""

\* the checks the two update handlers make before writing: "" when they pass
updateGuardError(unlocked, db) ==
    IF ~unlocked THEN PinRequiredMsg.text
    ELSE IF ~db THEN ConfigErrorMsg
    ELSE ""

\* updateBookingStatus / updatePaymentStatus up to the await of updateDoc;
\* kind is "status" or "payment", field the document field it writes
\* disabled={savingId === `${booking.id}:status`} and `${booking.id}:payment`
selectDisabled(bookingId, kind) == savingId = <<bookingId, kind>>

startBookingUpdate(bookingId, kind, field, value) ==
    /\ bookingId \in offeredBookingIds
    /\ ~selectDisabled(bookingId, kind)
    /\ IF updateGuardError(isPinUnlocked, firestoreDb) # ""
       THEN /\ adminError' = updateGuardError(isPinUnlocked, firestoreDb)
            /\ UNCHANGED <<savingId, updatesInFlight, updatesStarted>>
       ELSE /\ updatesStarted < MaxUpdates
            /\ savingId' = <<bookingId, kind>>
            /\ adminError' = ""
            /\ updatesStarted' = updatesStarted + 1
            /\ updatesInFlight' = updatesInFlight \cup
                 {[n |-> updatesStarted + 1, bookingId |-> bookingId, kind |-> kind,
                   field |-> field, value |-> value]}
    /\ UNCHANGED adminBookings
    /\ UNCHANGED <<envVars, chatVars, bookingVars, adminVars, serverClock>>

updateBookingStatus(bookingId, status) ==
    startBookingUpdate(bookingId, "status", "status", status)

updatePaymentStatus(bookingId, paymentStatus) ==
    startBookingUpdate(bookingId, "payment", "paymentStatus", paymentStatus)

\* updateDoc resolved: the store holds the new value; finally of the handler
updateResolved(u) ==
    /\ u \in updatesInFlight
    /\ updatesInFlight' = updatesInFlight \ {u}
    /\ bookings' = updateDoc(bookings, u.bookingId, u.field, u.value)
    /\ savingId' = NoSaving
    /\ UNCHANGED <<adminBookings, adminError, updatesStarted>>
    /\ UNCHANGED <<formState, selectedVehicle, bookingStep, isSubmitting, submitMessage,
                   submitError, checkoutStatus, submitPc, submitCtx, location, chatPending,
                   chatsAsked, checkoutRequests, checkoutResponses>>
    /\ UNCHANGED <<envVars, chatVars, adminVars, serverClock>>

\* updateDoc rejected (store unreachable): catch and finally of the handler
updateRejected(u) ==
    /\ u \in updatesInFlight
    /\ updatesInFlight' = updatesInFlight \ {u}
    /\ \E updateError \in UpdateErrors : adminError' = updateErrorText(u.kind, updateError)
    /\ savingId' = NoSaving
    /\ UNCHANGED <<adminBookings, updatesStarted>>
    /\ UNCHANGED <<envVars, chatVars, bookingVars, adminVars, serverClock>>

\* bookings.filter((booking) => booking.status === "pending").length
totalPendingOf(list) ==
    Cardinality({i \in DOMAIN list : list[i].status = "pending"})

totalPending == totalPendingOf(adminBookings)

\* Number(booking.estimatedFare || 0)
fareNumber(booking) ==
    IF "estimatedFare" \in DOMAIN booking THEN booking.estimatedFare ELSE 0

RECURSIVE totalRevenueCountingUnpaid(_)
totalRevenueCountingUnpaid(list) ==
    IF list = <<>> THEN 0
    ELSE fareNumber(Head(list)) + totalRevenueCountingUnpaid(Tail(list))

\* bookings.filter((booking) => booking.paymentStatus === "paid")
\*         .reduce((total, booking) => total + Number(...), 0)
RECURSIVE totalRevenueOf(_)
totalRevenueOf(list) ==
    IF list = <<>> THEN 0
    ELSE (IF Head(list).paymentStatus = "paid" THEN fareNumber(Head(list)) ELSE 0)
         + totalRevenueOf(Tail(list))

totalRevenue == totalRevenueOf(adminBookings)

----------------------------------------------------------------------------
(* The concierge chat endpoint: app/api/concierge-chat/route.ts *)

MaxMessageLen == 2

\* a message is a sequence of words; " " is white space around them
ChatWords == {"Vehicle", "scar", "price", "fare", "cost", "step", "next", "hello"}

ChatTokens == ChatWords \cup {" "}

ChatMessages == UNION {[1..n -> ChatTokens] : n \in 0..MaxMessageLen}

PassengerInputs == {0, 3, 4, 6, 7, 8}

FareEstimates == {0, 240}

\* ConciergeContext: passengers and estimatedFare are optional
ChatContexts ==
    {[bookingStep |-> 1, passengers |-> p, estimatedFare |-> f] :
        p \in PassengerInputs, f \in FareEstimates}
    \cup {[bookingStep |-> 1, passengers |-> p] : p \in PassengerInputs}
    \cup {[bookingStep |-> 1, estimatedFare |-> f] : f \in FareEstimates}
    \cup {[bookingStep |-> 1]}

\* ChatRequestBody: message and context are optional
ChatBodies ==
    {[history |-> <<>>, message |-> m, context |-> c] :
        m \in ChatMessages, c \in ChatContexts}
    \cup {[history |-> <<>>, message |-> m] : m \in ChatMessages}
    \cup {[history |-> <<>>, context |-> c] : c \in ChatContexts}
    \cup {[history |-> <<>>]}

\* the text service as the endpoint meets it: no OPENAI_API_KEY, or a key and
\* what client.chat.completions.create does
ChatServices ==
    {[apiKey |-> FALSE, completion |-> "unused"]}
    \cup {[apiKey |-> TRUE, completion |-> c] :
            c \in {"content", "noContent", "throwsError", "throwsOther"}}

undefinedContext == [undefined |-> TRUE]

GeneratedReply == "generated text"

SedanReply == "For a small party, an executive sedan is usually the best fit."
SuvReply   == "For your group size, a premium SUV is often the most balanced option."
VanReply   == "For larger groups, an executive van is typically the most comfortable choice."
FinalPricingReply ==
    "Final pricing is confirmed during checkout and reviewed by dispatch after submission."
StepsReply ==
    "I can guide you step-by-step: trip details, vehicle selection, then confirmation and payment."
DefaultReply ==
    "I can help you choose the right vehicle, complete each booking step, and finish checkout smoothly."
NonErrorReply ==
    "I can help you choose the right vehicle and complete your booking steps."

\* String.prototype.trim on a message
trimMessage(message) ==
    LET words == {i \in DOMAIN message : message[i] # " "} IN
    IF words = {} THEN <<>>
    ELSE LET first == CHOOSE i \in words : \A j \in words : i <= j
             last  == CHOOSE i \in words : \A j \in words : j <= i
         IN  SubSeq(message, first, last)

\* String.prototype.toLowerCase on a message
toLowerCase(message) ==
    [i \in DOMAIN message |-> IF message[i] = "Vehicle" THEN "vehicle" ELSE message[i]]

\* String.prototype.includes: the keyword is a substring of one of the words
includes(normalized, keyword) ==
    \E i \in DOMAIN normalized :
       \/ normalized[i] = keyword
       \/ normalized[i] = "scar" /\ keyword = "car"

\* Number.prototype.toFixed(2) of a whole amount
toFixed2(amount) == ToString(amount) \o ".00"

fallbackReplySuvUpToSeven(message, context) ==
    LET normalized == toLowerCase(message) IN
    IF includes(normalized, "vehicle") \/ includes(normalized, "car")
    THEN LET passengers == IF "passengers" \in DOMAIN context
                           THEN context.passengers ELSE 0
         IN  IF passengers <= 3 THEN SedanReply
             ELSE IF passengers <= 7 THEN SuvReply
             ELSE VanReply
    ELSE DefaultReply

fallbackReply(message, context) ==
    LET normalized == toLowerCase(message) IN
    IF includes(normalized, "vehicle") \/ includes(normalized, "car")
    THEN LET passengers == IF "passengers" \in DOMAIN context
                           THEN context.passengers ELSE 0
         IN  IF passengers <= 3 THEN SedanReply
             ELSE IF passengers <= 6 THEN SuvReply
             ELSE VanReply
    ELSE IF \/ includes(normalized, "price")
            \/ includes(normalized, "fare")
            \/ includes(normalized, "cost")
    THEN IF "estimatedFare" \in DOMAIN context /\ context.estimatedFare > 0
         THEN "Your current estimated total is $" \o toFixed2(context.estimatedFare) \o "."
         ELSE FinalPricingReply
    ELSE IF includes(normalized, "step") \/ includes(normalized, "next")
    THEN StepsReply
    ELSE DefaultReply

\* POST of the route: the response for a request body and a text service
chatPOST(body, service) ==
    LET userMessage == IF "message" \in DOMAIN body
                       THEN trimMessage(body.message) ELSE <<>>
        context     == IF "context" \in DOMAIN body
                       THEN body.context ELSE undefinedContext
    IN  IF userMessage = <<>>
        THEN [status |-> 400, error |-> "Missing message.", reply |-> ""]
        ELSE IF ~service.apiKey
        THEN [status |-> 200, error |-> "", reply |-> fallbackReply(userMessage, context)]
        ELSE IF service.completion = "content"
        THEN [status |-> 200, error |-> "", reply |-> GeneratedReply]
        ELSE IF service.completion = "noContent"
        THEN [status |-> 200, error |-> "", reply |-> fallbackReply(userMessage, context)]
        ELSE IF service.completion = "throwsError"
        THEN [status |-> 200, error |-> "", reply |-> fallbackReply(<<>>, undefinedContext)]
        ELSE [status |-> 200, error |-> "", reply |-> NonErrorReply]

\* one request to the endpoint is answered
chatRequestHandled ==
    /\ chatBody # NoChat
    /\ chatResponse = NoChat
    /\ chatResponse' = chatPOST(chatBody, chatService)
    /\ UNCHANGED <<chatBody, chatService>>
    /\ UNCHANGED <<envVars, bookingVars, adminVars, dispatchVars, serverClock>>

----------------------------------------------------------------------------
(* Specifications *)

\* Object.values(firebaseConfig).some((value) => !value): the store client
\* exists exactly when every credential is present
hasMissingFirebaseConfig(db) == ~db

\* evaluation of lib/firebase.ts: getApp() when an app is registered,
\* otherwise a throw when a credential is missing, otherwise initializeApp
initFirebaseApp(appsRegistered, db) ==
    IF appsRegistered THEN "app"
    ELSE IF hasMissingFirebaseConfig(db) THEN "threw"
    ELSE "app"

\* the environment of a freshly started process: credentials present or
\* absent, no app registered before lib/firebase.ts is first evaluated
InitEnv ==
    /\ firestoreDb \in BOOLEAN
    /\ firebaseApp = initFirebaseApp(FALSE, firestoreDb)

InitBooking ==
    /\ formState = initialFormState
    /\ selectedVehicle = ""
    /\ bookingStep = 1
    /\ isSubmitting = FALSE
    /\ submitMessage = ""
    /\ submitError = ""
    /\ checkoutStatus = ""
    /\ submitPc = "idle"
    /\ submitCtx = <<>>
    /\ location = "booking"
    /\ chatPending = {}
    /\ chatsAsked = 0
    /\ bookings = <<>>
    /\ checkoutRequests = <<>>
    /\ checkoutResponses = <<>>

\* the locked dashboard over a store holding contentDoc and versions
InitAdminOn(contentDoc, versions) ==
    /\ isPinUnlocked = FALSE
    /\ pinSession = ""
    /\ pinError = ""
    /\ contentDraft = defaultSiteContent
    /\ contentSaving = FALSE
    /\ contentMessage = ""
    /\ contentError = NoMsg
    /\ contentVersions = <<>>
    /\ restoringVersionId = 0
    /\ imageLoadErrors = [id \in {defaultSiteContent.fleet[i].id :
                                     i \in DOMAIN defaultSiteContent.fleet} |-> FALSE]
    /\ siteContentDoc = contentDoc
    /\ siteContentVersions = versions
    /\ batchesInFlight = {}
    /\ contentWriteLog = <<>>
    /\ opCounter = 0
    /\ adminBookings = <<>>
    /\ adminError = ""
    /\ savingId = NoSaving
    /\ updatesInFlight = {}
    /\ updatesStarted = 0

InitAdmin == InitAdminOn(NoDoc, <<>>)

InitChatIdle ==
    /\ chatBody = NoChat
    /\ chatService = NoChat
    /\ chatResponse = NoChat

Init ==
    /\ InitEnv
    /\ serverClock = 0
    /\ InitBooking
    /\ InitAdmin
    /\ InitChatIdle

Next ==
    \/ \E field \in DOMAIN TextValues : \E value \in TextValues[field] :
          updateField(field, value)
    \/ \E id \in VehicleIds : setSelectedVehicle(id)
    \/ \E nextStep \in 1..3 : goToStep(nextStep)
    \/ handleSubmit
    \/ addDocResolved
    \/ addDocRejected
    \/ checkoutFetchFailed
    \/ \E key \in BOOLEAN : \E stripe \in StripeOutcomes : checkoutAnswered(key, stripe)
    \/ \E status \in {"success", "cancelled"} : returnFromCheckout(status)
    \/ \E mentions \in ChatMentions : conciergeAsk(mentions)
    \/ \E req \in chatPending : conciergeReplied(req)

Spec == Init /\ [][Next]_vars

NextContent ==
    \/ \E pinInput \in PinInputs : unlockWithPin(pinInput)
    \/ lockAdmin
    \/ \E value \in HomeValues : updateHomeField(value)
    \/ \E value \in BookingCopyValues : updateBookingField(value)
    \/ \E index \in DOMAIN contentDraft.fleet :
          \/ \E value \in FareInputs : updateFleetField(index, "baseFare", value)
          \/ \E value \in ImageValues : updateFleetField(index, "image", value)
    \/ \E index \in DOMAIN contentDraft.fleet : imageOnError(index)
    \/ resetToDefaults
    \/ saveContentDraft
    \/ \E index \in DOMAIN contentVersions : \E confirmed \in BOOLEAN :
          restoreContentVersion(index, confirmed)
    \/ \E b \in batchesInFlight : batchCommitted(b)
    \/ \E b \in batchesInFlight : batchRejected(b)
    \/ contentSnapshot
    \/ versionsSnapshot

SpecContent == Init /\ [][NextContent]_vars

\* Two bookings customers have submitted before the dispatcher opens the
\* dashboard: the records handleSubmit stores, their checkout calls unanswered.
submittedDrafts ==
    << [initialFormState EXCEPT !.pickupAddress = "A", !.dropoffAddress = "B",
                                !.serviceDate = "2026-01-01", !.pickupTime = "09:00",
                                !.fullName = "N", !.email = "e@x", !.phone = "716"],
       [initialFormState EXCEPT !.serviceType = "hourly",
                                !.pickupAddress = "A", !.dropoffAddress = "B",
                                !.serviceDate = "2026-01-01", !.pickupTime = "09:00",
                                !.fullName = "N", !.email = "e@x", !.phone = "716"] >>

submittedBookings ==
    << storedBooking(bookingPayload(submittedDrafts[1], "sedan"), 1, 1),
       storedBooking(bookingPayload(submittedDrafts[2], "suv"), 2, 2) >>

\* the dashboard opened over the submitted bookings and a content store
\* holding contentDoc and versions, written after the bookings
InitDashboard(contentDoc, versions) ==
    /\ InitEnv
    /\ serverClock = Len(submittedBookings) + Len(versions)
    /\ formState = initialFormState
    /\ selectedVehicle = ""
    /\ bookingStep = 1
    /\ isSubmitting = FALSE
    /\ submitMessage = ""
    /\ submitError = ""
    /\ checkoutStatus = ""
    /\ submitPc = "idle"
    /\ submitCtx = <<>>
    /\ location = "booking"
    /\ chatPending = {}
    /\ chatsAsked = 0
    /\ bookings = submittedBookings
    /\ checkoutRequests = [i \in DOMAIN submittedBookings |->
                             checkoutBody(submittedBookings[i].id,
                                          submittedBookings[i].data)]
    /\ checkoutResponses = <<>>
    /\ InitAdminOn(contentDoc, versions)
    /\ InitChatIdle

InitDispatch == InitDashboard(NoDoc, <<>>)

NextDispatch ==
    \/ \E pinInput \in PinInputs : unlockWithPin(pinInput)
    \/ lockAdmin
    \/ bookingsSnapshot
    \/ \E bookingId \in offeredBookingIds :
          \E i \in DOMAIN BOOKING_STATUSES :
             updateBookingStatus(bookingId, BOOKING_STATUSES[i])
    \/ \E bookingId \in offeredBookingIds :
          \E i \in DOMAIN PAYMENT_STATUSES :
             updatePaymentStatus(bookingId, PAYMENT_STATUSES[i])
    \/ \E u \in updatesInFlight : updateResolved(u)
    \/ \E u \in updatesInFlight : updateRejected(u)
    \/ saveContentDraft
    \/ \E b \in batchesInFlight : batchCommitted(b)
    \/ \E b \in batchesInFlight : batchRejected(b)

SpecDispatch == InitDispatch /\ [][NextDispatch]_vars

\* the dispatcher's dashboard with its three feeds: bookings change through
\* status updates, the content and its versions through saves of an edited draft
NextFeeds ==
    \/ \E pinInput \in PinInputs : unlockWithPin(pinInput)
    \/ lockAdmin
    \/ bookingsSnapshot
    \/ contentSnapshot
    \/ versionsSnapshot
    \/ \E bookingId \in offeredBookingIds :
          \E i \in DOMAIN BOOKING_STATUSES :
             updateBookingStatus(bookingId, BOOKING_STATUSES[i])
    \/ \E u \in updatesInFlight : updateResolved(u)
    \/ \E value \in HomeValues : updateHomeField(value)
    \/ saveContentDraft
    \/ \E b \in batchesInFlight : batchCommitted(b)

SpecFeeds == InitDispatch /\ [][NextFeeds]_vars

\* the content store after n saves of the default content made in earlier
\* sessions, the first at time first + 1; their ids are apart from this session's
RECURSIVE earlierSaves(_, _)
earlierSaves(n, first) ==
    IF n = 0 THEN [doc |-> NoDoc, versions |-> <<>>]
    ELSE commitBatch(earlierSaves(n - 1, first),
                     saveBatch(defaultSiteContent, EarlierIdBase + n), first + n)

EarlierSaveCounts == {0, VERSION_LIMIT - 1}

\* the dashboard opened over a version collection that is empty or one short
\* of the display limit
InitArchive ==
    \E n \in EarlierSaveCounts :
       LET st == earlierSaves(n, Len(submittedBookings)) IN
       InitDashboard(st.doc, st.versions)

NextArchive ==
    \/ \E pinInput \in PinInputs : unlockWithPin(pinInput)
    \/ lockAdmin
    \/ bookingsSnapshot
    \/ versionsSnapshot
    \/ \E value \in HomeValues : updateHomeField(value)
    \/ saveContentDraft
    \/ \E b \in batchesInFlight : batchCommitted(b)
    \/ \E b \in batchesInFlight : batchRejected(b)

SpecArchive == InitArchive /\ [][NextArchive]_vars

\* a request arriving at the chat endpoint with any body and any text service
InitChat ==
    /\ InitEnv
    /\ serverClock = 0
    /\ InitBooking
    /\ InitAdmin
    /\ chatBody \in ChatBodies
    /\ chatService \in ChatServices
    /\ chatResponse = NoChat

NextChat == chatRequestHandled

SpecChat == InitChat /\ [][NextChat]_vars

----------------------------------------------------------------------------
(* Properties of the customer side, checked under Spec *)

\* C1: for every vehicle v of the catalog and every service type s the
\* estimated fare of the form is v.baseFare * m(s) with m(one-way) = 1,
\* m(round-trip) = 2, m(hourly) = 3, and it is 0 while no vehicle is selected.
EstimatedFareIsBaseTimesMultiplier ==
    LET m == [s \in ServiceTypes |->
                IF s = "one-way" THEN 1 ELSE IF s = "round-trip" THEN 2 ELSE 3]
    IN  /\ selectedVehicle = "" => estimatedFare = 0
        /\ \A i \in DOMAIN vehicles : \A s \in ServiceTypes :
              selectedVehicle = vehicles[i].id /\ formState.serviceType = s
                 => estimatedFare = vehicles[i].baseFare * m[s]

HourlySprinterFare ==
    /\ selectedVehicle = "sprinter"
    /\ formState.serviceType = "hourly"
    /\ estimatedFare = 660

\* C2: the form never goes from step 1 to step 2 while any of pickupAddress,
\* dropoffAddress, serviceDate or pickupTime is empty.
Step1To2NeedsTripDetails ==
    [][ bookingStep = 1 /\ bookingStep' = 2
          => /\ formState.pickupAddress # ""
             /\ formState.dropoffAddress # ""
             /\ formState.serviceDate # ""
             /\ formState.pickupTime # "" ]_vars

\* C3: the form never reaches step 3 from an earlier step unless a vehicle is
\* selected, and never moves forward from step 1 (to step 2, or past it to
\* step 3) unless the trip details of step 1 are complete.
ForwardStepsSatisfyGuards ==
    [][ /\ (bookingStep < 3 /\ bookingStep' = 3 => canProceedStep2)
        /\ (bookingStep = 1 /\ bookingStep' > 1 => canProceedStep1) ]_vars

\* C4: a submit attempt on a draft that fails a validation (store not
\* configured, date or time empty, an address empty, a contact field empty, no
\* vehicle) starts no write and stores no record, sets the error message of a
\* failing group, and leaves the step and the draft as they were.
FailedValidationPersistsNothing ==
    [][ LET failing ==
              {msg \in {ConfigErrorMsg, DateTimeMsg, AddressMsg, ContactMsg, VehicleMsg} :
                 \/ msg = ConfigErrorMsg /\ ~firestoreDb
                 \/ msg = DateTimeMsg /\ (formState.serviceDate = ""
                                            \/ formState.pickupTime = "")
                 \/ msg = AddressMsg /\ (formState.pickupAddress = ""
                                           \/ formState.dropoffAddress = "")
                 \/ msg = ContactMsg /\ (formState.fullName = "" \/ formState.email = ""
                                           \/ formState.phone = "")
                 \/ msg = VehicleMsg /\ selectedVehicle \notin VehicleIds}
        IN  handleSubmit /\ failing # {}
              => /\ submitError' \in failing
                 /\ bookings' = bookings
                 /\ submitPc' = "idle"
                 /\ ~isSubmitting'
                 /\ checkoutRequests' = checkoutRequests
                 /\ bookingStep' = bookingStep
                 /\ formState' = formState
                 /\ selectedVehicle' = selectedVehicle ]_vars

ContactRejectedAtStep3 ==
    /\ firestoreDb
    /\ bookingStep = 3
    /\ submitError = ContactMsg
    /\ formState.phone = ""
    /\ submitPc = "idle"
    /\ bookings = <<>>

\* C5: every record a submission adds to the bookings collection has status
\* pending, paymentStatus unpaid and the store's own time as createdAt.
NewBookingIsPendingUnpaid ==
    [][ \A i \in DOMAIN bookings' :
          i \notin DOMAIN bookings
            => /\ bookings'[i].data.status = "pending"
               /\ bookings'[i].data.paymentStatus = "unpaid"
               /\ bookings'[i].createdAt = serverClock'
               /\ serverClock' > serverClock ]_vars

RoundTripBookingStored ==
    /\ Len(bookings) = 1
    /\ bookings[1].data.tripType = "round-trip"
    /\ bookings[1].data.status = "pending"
    /\ bookings[1].data.paymentStatus = "unpaid"
    /\ bookings[1].createdAt = serverClock

\* C6: when the payment endpoint answers without success or without a url,
\* the record of that booking stays stored as pending / unpaid, the user is
\* told checkout could not start, the window stays on the form and the
\* handler sends no further payment request.
FailedCheckoutKeepsPendingBooking ==
    [][ Len(checkoutResponses') > Len(checkoutResponses)
        /\ (LET r == checkoutResponses'[Len(checkoutResponses')]
            IN  ~r.ok \/ r.url = NoUrl)
          => /\ bookings' = bookings
             /\ \E i \in DOMAIN bookings :
                   /\ bookings[i].id = checkoutRequests[Len(checkoutRequests)].bookingId
                   /\ bookings[i].data.status = "pending"
                   /\ bookings[i].data.paymentStatus = "unpaid"
             /\ submitMessage' = CheckoutNotStartedMsg
             /\ submitError' # ""
             /\ location' = "booking"
             /\ checkoutRequests' = checkoutRequests
             /\ submitPc' = "idle" ]_vars

CheckoutCouldNotStart ==
    /\ Len(checkoutResponses) = 1
    /\ ~checkoutResponses[1].ok
    /\ submitMessage = CheckoutNotStartedMsg
    /\ Len(bookings) = 1
    /\ location = "booking"

\* C7: the payment endpoint is only ever called with the id of a record that
\* is already stored (one call per stored record, none for a write that
\* failed), an answer only follows a call, and the window is at the payment
\* page only once the endpoint answered with the url of that booking.
PersistThenCheckoutThenRedirect ==
    /\ Len(checkoutRequests) = Len(bookings)
    /\ \A i \in DOMAIN checkoutRequests :
          /\ checkoutRequests[i].bookingId = bookings[i].id
          /\ checkoutRequests[i].vehicleId = bookings[i].data.vehicleId
          /\ checkoutRequests[i].serviceType = bookings[i].data.tripType
    /\ Len(checkoutResponses) <= Len(checkoutRequests)
    /\ location = "stripe"
          => /\ checkoutResponses # <<>>
             /\ LET r == checkoutResponses[Len(checkoutResponses)]
                IN  /\ r.ok
                    /\ r.url = <<"checkout.stripe", bookings[Len(bookings)].id>>

RedirectedToCheckout ==
    /\ location = "stripe"
    /\ Len(bookings) = 1
    /\ checkoutResponses[1].url = <<"checkout.stripe", 1>>

\* C8: when the concierge's reply arrives and the jump it asked for fails the
\* guards of the form as it then is (step 2 with a trip detail missing, step
\* 3 with a trip detail missing or no vehicle), the step stays as it was and
\* the explanatory message of that guard is set.
ConciergeJumpGuarded ==
    [][ \A req \in chatPending :
          chatPending' = chatPending \ {req}
            => /\ (req.mentions = {2} /\ ~canProceedStep1
                     => /\ bookingStep' = bookingStep
                        /\ submitError' = ConciergeTrip2Msg)
               /\ (req.mentions = {3} /\ (~canProceedStep1 \/ ~canProceedStep2)
                     => /\ bookingStep' = bookingStep
                        /\ submitError' \in {ConciergeTrip3Msg, ConciergeVehicleMsg}) ]_vars

----------------------------------------------------------------------------
(* Properties of the content store, checked under SpecContent *)

\* C9: in every reachable store state the operations that updated the content
\* document are exactly the operations whose version record is in the version
\* collection, and the document carries the time of the newest version: no
\* state has the content updated without its version, or a version without
\* the content update.
ContentAndVersionTogether ==
    /\ {contentWriteLog[i] : i \in DOMAIN contentWriteLog}
          = {siteContentVersions[i].id : i \in DOMAIN siteContentVersions}
    /\ Len(contentWriteLog) = Len(siteContentVersions)
    /\ (siteContentDoc = NoDoc) = (siteContentVersions = <<>>)
    /\ siteContentDoc # NoDoc
          => siteContentDoc.updatedAt
               = siteContentVersions[Len(siteContentVersions)].data.createdAt

TwoOperationsCommitted ==
    /\ contentWriteLog = <<1, 2>>
    /\ Len(siteContentVersions) = 2
    /\ siteContentDoc # NoDoc
    /\ batchesInFlight = {}

\* C10: a committed save or restore adds exactly one record at the end of the
\* version collection, of action save, or of action restore with
\* sourceVersionId the id of an existing version holding the same snapshot,
\* and every record that was there stays, unchanged.
VersionsAppendOnly ==
    [][ siteContentVersions' # siteContentVersions \/ contentWriteLog' # contentWriteLog
          => /\ Len(siteContentVersions') = Len(siteContentVersions) + 1
             /\ SubSeq(siteContentVersions', 1, Len(siteContentVersions))
                   = siteContentVersions
             /\ LET new == siteContentVersions'[Len(siteContentVersions')]
                IN  /\ \A i \in DOMAIN siteContentVersions :
                          siteContentVersions[i].id # new.id
                    /\ \/ new.data.action = "save"
                       \/ /\ new.data.action = "restore"
                          /\ \E i \in DOMAIN siteContentVersions :
                                /\ siteContentVersions[i].id = new.data.sourceVersionId
                                /\ normalizeSiteContent(siteContentVersions[i].data.snapshot)
                                      = new.data.snapshot ]_vars

RestoreRecordedAsNewVersion ==
    /\ Len(siteContentVersions) = 2
    /\ siteContentVersions[1].data.action = "save"
    /\ siteContentVersions[2].data.action = "restore"
    /\ siteContentVersions[2].data.sourceVersionId = siteContentVersions[1].id

\* C11: when a restore commits, the persisted content (home, booking, fleet
\* of siteContent/main) equals the snapshot of the version it restores,
\* whatever was saved in between, and the commit adds exactly one version
\* record, of action restore, whose sourceVersionId is that version's id.
RestoreYieldsSavedContent ==
    [][ ( /\ Len(siteContentVersions') = Len(siteContentVersions) + 1
          /\ siteContentVersions'[Len(siteContentVersions')].data.action = "restore" )
          => LET new == siteContentVersions'[Len(siteContentVersions')]
                 sources == {i \in DOMAIN siteContentVersions :
                               siteContentVersions[i].id = new.data.sourceVersionId}
             IN  /\ Cardinality(sources) = 1
                 /\ \A i \in sources :
                       /\ [ home    |-> siteContentDoc'.home,
                            booking |-> siteContentDoc'.booking,
                            fleet   |-> siteContentDoc'.fleet ]
                             = siteContentVersions[i].data.snapshot
                       /\ new.data.snapshot = siteContentVersions[i].data.snapshot
                 /\ SubSeq(siteContentVersions', 1, Len(siteContentVersions))
                       = siteContentVersions ]_vars

RestoredAnOlderSave ==
    /\ Len(siteContentVersions) = 3
    /\ siteContentVersions[1].data.action = "save"
    /\ siteContentVersions[2].data.action = "save"
    /\ siteContentVersions[2].data.snapshot # siteContentVersions[1].data.snapshot
    /\ siteContentVersions[3].data.action = "restore"
    /\ siteContentVersions[3].data.sourceVersionId = siteContentVersions[1].id
    /\ siteContentDoc.home = siteContentVersions[1].data.snapshot.home
    /\ siteContentDoc.updatedAt = siteContentVersions[3].data.createdAt

\* C12: a save attempted from the unlocked dashboard on a draft with a fleet
\* entry whose price is <= 0, or whose image is empty, not an http/https URL
\* or flagged as failed to load, starts no batch, leaves siteContent/main and
\* the versions as they are, and sets an error carrying exactly the ids of
\* the entries with a bad price and of the entries with a bad image.
InvalidFleetBlocksSave ==
    [][ LET badPrice == {i \in DOMAIN contentDraft.fleet :
                           contentDraft.fleet[i].baseFare <= 0}
            badPhoto == {i \in DOMAIN contentDraft.fleet :
                           \/ contentDraft.fleet[i].image = ""
                           \/ urlProtocol(contentDraft.fleet[i].image)
                                 \notin {"http:", "https:"}
                           \/ imageLoadErrors[contentDraft.fleet[i].id]}
        IN  saveContentDraft /\ isPinUnlocked /\ (badPrice \cup badPhoto) # {}
              => /\ batchesInFlight' = batchesInFlight
                 /\ opCounter' = opCounter
                 /\ ~contentSaving'
                 /\ siteContentDoc' = siteContentDoc
                 /\ siteContentVersions' = siteContentVersions
                 /\ contentError'.text = "Cannot save yet."
                 /\ {contentError'.priceIds[k] : k \in DOMAIN contentError'.priceIds}
                       = {contentDraft.fleet[i].id : i \in badPrice}
                 /\ {contentError'.photoIds[k] : k \in DOMAIN contentError'.photoIds}
                       = {contentDraft.fleet[i].id : i \in badPhoto} ]_vars

SaveBlockedByFailedPhoto ==
    /\ isPinUnlocked
    /\ firestoreDb
    /\ imageLoadErrors["sedan"]
    /\ contentDraft.fleet[1].image = "https://a"
    /\ contentError.text = "Cannot save yet."
    /\ contentError.photoIds = <<"sedan">>
    /\ contentError.priceIds = <<>>
    /\ batchesInFlight = {}

\* C13: submitting the PIN form with the text 1844 unlocks the dashboard and
\* sets the session flag; submitting it with any other text leaves the
\* dashboard locked and the session flag unset, and shows an error.
OnlyThePinUnlocks ==
    [][ \A pinInput \in PinInputs :
          unlockWithPin(pinInput)
            => IF pinInput = ADMIN_PIN
               THEN isPinUnlocked' /\ pinSession' = "1"
               ELSE ~isPinUnlocked' /\ pinSession' = "" /\ pinError' # "" ]_vars

----------------------------------------------------------------------------
(* Properties of the dispatcher's dashboard, checked under SpecDispatch *)

UpdateTouchesOneField ==
    [][ bookings' # bookings
          => /\ DOMAIN bookings' = DOMAIN bookings
             /\ \E u \in updatesInFlight :
                   /\ u \notin updatesInFlight'
                   /\ u.field = (IF u.kind = "status" THEN "status" ELSE "paymentStatus")
                   /\ \A i \in DOMAIN bookings :
                         IF bookings[i].id = u.bookingId
                         THEN /\ bookings'[i].id = bookings[i].id
                              /\ bookings'[i].createdAt = bookings[i].createdAt
                              /\ DOMAIN bookings'[i].data = DOMAIN bookings[i].data
                              /\ bookings'[i].data[u.field] = u.value
                              /\ \A f \in DOMAIN bookings[i].data \ {u.field} :
                                    bookings'[i].data[f] = bookings[i].data[f]
                         ELSE bookings'[i] = bookings[i] ]_vars

CompletedAndRefunded ==
    /\ bookings[1].data.status = "completed"
    /\ bookings[1].data.paymentStatus = "refunded"
    /\ bookings[1].data.estimatedFare = submittedBookings[1].data.estimatedFare
    /\ bookings[2] = submittedBookings[2]
    /\ updatesInFlight = {}

----------------------------------------------------------------------------
(* Missing credentials *)

\* C17: with the store's credentials absent nothing crashes, the store
\* client's initialization included, and no write is ever attempted: no
\* booking is being stored or is stored, no checkout is requested, and no
\* content batch or status update is in flight.
MissingCredentialsDegradeWithoutCrash ==
    ~firestoreDb
       => /\ firebaseApp # "threw"
          /\ submitPc = "idle"
          /\ bookings = <<>>
          /\ checkoutRequests = <<>>
          /\ batchesInFlight = {}
          /\ contentWriteLog = <<>>
          /\ updatesInFlight = {}

----------------------------------------------------------------------------
(* Properties of the chat endpoint, checked under SpecChat *)

\* C18: whenever the text service has no API key or its call fails, the
\* answer is the rule-based reply that keyword matching selects for the
\* user's message and the booking context of the request.
FallbackKeyedOnMessageAndContext ==
    (/\ chatResponse # NoChat
     /\ chatResponse.status = 200
     /\ \/ ~chatService.apiKey
        \/ chatService.completion \in {"throwsError", "throwsOther"})
       => chatResponse.reply =
             fallbackReply(trimMessage(chatBody.message),
                           IF "context" \in DOMAIN chatBody
                           THEN chatBody.context ELSE undefinedContext)

\* C19: for a message containing "vehicle" or "car" the fallback reply is a
\* function of context.passengers alone, a missing count being 0: the sedan
\* up to 3, the SUV from 4 to 6, the executive van above 6; the endpoint
\* answers with it when it falls back on the rules for the user's message.
VehicleReplyFollowsPassengers ==
    ("message" \in DOMAIN chatBody
       /\ LET normalized == toLowerCase(trimMessage(chatBody.message)) IN
          includes(normalized, "vehicle") \/ includes(normalized, "car"))
       => LET context    == IF "context" \in DOMAIN chatBody
                            THEN chatBody.context ELSE undefinedContext
              passengers == IF "passengers" \in DOMAIN context
                            THEN context.passengers ELSE 0
              expected   == IF passengers <= 3 THEN SedanReply
                            ELSE IF passengers \in 4..6 THEN SuvReply
                            ELSE VanReply
          IN  /\ fallbackReply(trimMessage(chatBody.message), context) = expected
              /\ (/\ chatResponse # NoChat
                  /\ \/ ~chatService.apiKey
                     \/ chatService.completion = "noContent")
                    => chatResponse.reply = expected

VanForEightPassengers ==
    /\ chatResponse # NoChat
    /\ ~chatService.apiKey
    /\ "message" \in DOMAIN chatBody
    /\ chatBody.message = <<"Vehicle", "price">>
    /\ "context" \in DOMAIN chatBody
    /\ chatBody.context = [bookingStep |-> 1, passengers |-> 8, estimatedFare |-> 240]
    /\ chatResponse.reply = VanReply

----------------------------------------------------------------------------
(* Duplicate submission, checked under Spec *)

\* C20: from the start of a submission until its store write and payment
\* call have settled the submit control is disabled, so handleSubmit cannot
\* run, and a submission only ever starts when none is in flight.
SubmitDisabledWhileInFlight ==
    [][ /\ (submitPc # "idle") = isSubmitting
        /\ (submitPc' # "idle") = isSubmitting'
        /\ submitPc # "idle" => ~submitEnabled(isSubmitting) /\ ~ENABLED handleSubmit
        /\ (submitPc' = "addDoc" /\ submitPc # "addDoc")
              => submitPc = "idle" /\ ~isSubmitting ]_vars

ValidFormWaitingOnCheckout ==
    /\ submitPc = "checkout"
    /\ isSubmitting
    /\ bookingStep = 3
    /\ location = "booking"
    /\ submitValidationError(firestoreDb, formState, selectedVehicle) = ""
    /\ Len(bookings) = 1

\* C21: the pending count shown is the number of bookings of the list the
\* feed last delivered whose status is pending, and the paid revenue is the
\* sum of estimatedFare over exactly its paid bookings; right after an
\* emission both equal the same figures taken over the stored bookings, the
\* settled status changes included.
AggregatesFollowTheFeed ==
    [][ LET paidIn(list)  == {i \in DOMAIN list : list[i].paymentStatus = "paid"}
            fareSum(list) ==
               LET RECURSIVE over(_)
                   over(S) == IF S = {} THEN 0
                              ELSE LET i == CHOOSE j \in S : TRUE
                                   IN  list[i].estimatedFare + over(S \ {i})
               IN  over(paidIn(list))
            stored == [i \in DOMAIN bookings' |-> bookings'[i].data]
        IN  /\ totalPending' =
                  Len(SelectSeq(adminBookings', LAMBDA b : b.status = "pending"))
            /\ totalRevenue' = fareSum(adminBookings')
            /\ (adminBookings' # adminBookings /\ adminBookings' # <<>>)
                  => /\ totalPending' =
                           Len(SelectSeq(stored, LAMBDA b : b.status = "pending"))
                     /\ totalRevenue' = fareSum(stored) ]_vars

OnePendingOnePaid ==
    /\ Len(adminBookings) = 2
    /\ adminBookings[2].status = "completed"
    /\ adminBookings[2].paymentStatus = "paid"
    /\ adminBookings[1].status = "pending"
    /\ adminBookings[1].paymentStatus = "unpaid"
    /\ adminBookings[1].estimatedFare > 0
    /\ totalPending = 1
    /\ totalRevenue = adminBookings[2].estimatedFare
    /\ totalRevenue > 0

----------------------------------------------------------------------------
(* The dashboard's three feeds, checked under SpecFeeds *)

\* C22: when the list of bookings, the draft or the list of versions already
\* shows the latest snapshot of its feed, applying that snapshot again
\* changes nothing on the dashboard: the emission replaces what is held, it
\* neither appends to it nor merges into it.
SnapshotReappliedChangesNothing ==
    [][ /\ (/\ bookingsSnapshot
            /\ adminBookings = bookingsFeed(bookings)
            /\ adminError = "")
              => UNCHANGED vars
        /\ (/\ contentSnapshot
            /\ contentDraft = contentFeed(siteContentDoc))
              => UNCHANGED vars
        /\ (/\ versionsSnapshot
            /\ contentVersions = versionsFeed(siteContentVersions))
              => UNCHANGED vars
        /\ bookingsSnapshot => adminBookings' = bookingsFeed(bookings)
        /\ contentSnapshot => contentDraft' = contentFeed(siteContentDoc)
        /\ versionsSnapshot => contentVersions' = versionsFeed(siteContentVersions) ]_vars

FeedsShownAfterChanges ==
    /\ isPinUnlocked
    /\ Len(adminBookings) = 2
    /\ adminBookings = bookingsFeed(bookings)
    /\ bookings # submittedBookings
    /\ Len(contentVersions) = 2
    /\ contentVersions = versionsFeed(siteContentVersions)
    /\ siteContentDoc # NoDoc
    /\ contentDraft = contentFeed(siteContentDoc)

----------------------------------------------------------------------------
(* Order and cap of the lists shown, checked under SpecArchive *)

----------------------------------------------------------------------------
(* One savingId for every dropdown, checked under SpecDispatch *)

\* C24: while an update of a booking's status or payment status is in
\* flight, the dropdown it was started from is disabled.
DropdownDisabledWhileUpdating ==
    \A u \in updatesInFlight : selectDisabled(u.bookingId, u.kind)

----------------------------------------------------------------------------
(* The amount charged, checked under Spec *)

\* C25: the form sends no estimatedFare with its checkout request, and the
\* amount the endpoint charges for it, in cents, is the estimatedFare stored
\* on the booking the request names: for every request made, and for the
\* amount of every session the endpoint has just created.
ChargedAmountIsStoredFare ==
    [][ LET storedFare(bookingId) ==
               LET k == CHOOSE k \in DOMAIN bookings' : bookings'[k].id = bookingId
               IN  bookings'[k].data.estimatedFare
        IN  /\ \A i \in DOMAIN checkoutRequests' :
                  LET body == checkoutRequests'[i] IN
                  /\ "estimatedFare" \notin DOMAIN body
                  /\ \E k \in DOMAIN bookings' : bookings'[k].id = body.bookingId
                  /\ checkoutUnitAmount(body) = storedFare(body.bookingId) * 100
            /\ Len(checkoutResponses') > Len(checkoutResponses)
                  => LET response == checkoutResponses'[Len(checkoutResponses')]
                         body     == checkoutRequests[Len(checkoutRequests)]
                     IN  response.ok
                            => /\ response.amount = storedFare(body.bookingId) * 100
                               /\ response.amount > 0 ]_vars

HourlySprinterCharged ==
    /\ Len(checkoutResponses) = 1
    /\ checkoutResponses[1].ok
    /\ checkoutResponses[1].amount = 66000
    /\ bookings[1].data.vehicleId = "sprinter"
    /\ bookings[1].data.tripType = "hourly"
    /\ bookings[1].data.estimatedFare = 660
    /\ location = "stripe"

----------------------------------------------------------------------------
(* Who changes a stored booking, checked under Spec *)

\* C26: a stored booking is changed by nothing but an administrator's status
\* or payment-status update that has settled: every other change of the
\* stored bookings is the addition of one new pending, unpaid booking that
\* leaves the earlier ones as they were. Submitting, creating the payment
\* session and returning from the payment page change no stored booking.
OnlyAdminUpdatesChangeBookings ==
    [][ bookings' # bookings
          => \/ /\ Len(bookings') = Len(bookings) + 1
                /\ \A i \in DOMAIN bookings : bookings'[i] = bookings[i]
                /\ bookings'[Len(bookings')].data.status = "pending"
                /\ bookings'[Len(bookings')].data.paymentStatus = "unpaid"
                /\ submitPc = "addDoc"
             \/ \E u \in updatesInFlight :
                   /\ u \notin updatesInFlight'
                   /\ bookings' = updateDoc(bookings, u.bookingId, u.field, u.value) ]_vars

PaidAtProviderStillUnpaid ==
    /\ location = "booking"
    /\ checkoutStatus = "success"
    /\ Len(bookings) = 1
    /\ Len(checkoutResponses) = 1
    /\ checkoutResponses[1].ok
    /\ bookings[1].data.paymentStatus = "unpaid"
    /\ bookings[1].data.status = "pending"

----------------------------------------------------------------------------
(* The content feed and the draft, checked under SpecContent *)

\* C27: an emission of the content document's feed leaves the draft equal to
\* the persisted content, field by field with the defaults for what the
\* document lacks, or to the defaults when there is no document, whatever
\* the draft held before: edits not yet saved are gone.
EmissionOverwritesDraft ==
    [][ contentSnapshot
          => IF siteContentDoc = NoDoc
             THEN contentDraft' = defaultSiteContent
             ELSE /\ contentDraft'.home.heroBadge =
                        IF "home" \in DOMAIN siteContentDoc
                        THEN siteContentDoc.home.heroBadge
                        ELSE defaultSiteContent.home.heroBadge
                  /\ contentDraft'.booking.formTitle =
                        IF "booking" \in DOMAIN siteContentDoc
                        THEN siteContentDoc.booking.formTitle
                        ELSE defaultSiteContent.booking.formTitle
                  /\ Len(contentDraft'.fleet) = Len(siteContentDoc.fleet)
                  /\ \A i \in DOMAIN siteContentDoc.fleet :
                        /\ contentDraft'.fleet[i].id = siteContentDoc.fleet[i].id
                        /\ contentDraft'.fleet[i].image = siteContentDoc.fleet[i].image
                        /\ contentDraft'.fleet[i].baseFare = siteContentDoc.fleet[i].baseFare
                  /\ DOMAIN contentDraft' = {"home", "booking", "fleet"} ]_vars

RejectedEditReplacedByPersisted ==
    /\ isPinUnlocked
    /\ siteContentDoc # NoDoc
    /\ siteContentDoc.home.heroBadge = "NEW BADGE"
    /\ contentError.text = "Cannot save yet."
    /\ contentDraft.home.heroBadge = "NEW BADGE"
    /\ contentDraft.fleet = siteContentDoc.fleet
    /\ batchesInFlight = {}

----------------------------------------------------------------------------
(* Persisted prices, checked under SpecContent *)

\* C28: whatever edits, resets, saves and restores the dashboard's sessions
\* have made since the version collection was empty, every fleet entry of
\* the persisted content document and of the snapshot of every stored
\* version has a base fare above 0.
PersistedFaresPositive ==
    /\ siteContentDoc # NoDoc
          => \A i \in DOMAIN siteContentDoc.fleet : siteContentDoc.fleet[i].baseFare > 0
    /\ \A v \in DOMAIN siteContentVersions :
          \A i \in DOMAIN siteContentVersions[v].data.snapshot.fleet :
             siteContentVersions[v].data.snapshot.fleet[i].baseFare > 0

ZeroFareDraftOverValidStore ==
    /\ isPinUnlocked
    /\ contentDraft.fleet[1].baseFare = 0
    /\ contentError.text = "Cannot save yet."
    /\ siteContentDoc # NoDoc
    /\ Len(siteContentVersions) = 2
    /\ siteContentVersions[2].data.action = "restore"
    /\ opCounter = 2

====
